---- MODULE Spec2Model ----
(***************************************************************************)
(* Model of the file/record reconciliation layer of the file-sharing       *)
(* backend (routes/fileRoutes.js, kept here as src/unnamed/part_000):     *)
(* the store of File records, the uploads directory, and the request      *)
(* handlers GET /, GET /download/:id, GET /download-direct/:filename,      *)
(* DELETE /:id, PUT /:id/download, POST /cleanup-orphaned and the          *)
(* directory sweep cleanupOrphanedFiles.  Every await of a handler is a step boundary, so  *)
(* requests interleave exactly where the code suspends.                   *)
(*                                                                         *)
(* Strings are sequences of one-character strings, so that path.resolve,  *)
(* path.join, path.basename, String.startsWith and decodeURIComponent are  *)
(* computed on characters as the library computes them.                   *)
(***************************************************************************)
EXTENDS Integers, Sequences, FiniteSets, TLC

\* ------------------------------------------------------------------ bounds
\* Record ids the store can hold.
NumIds == 2
\* Requests that can be in progress at once.
NumProcs == 2
\* Requests started in one behaviour.
MaxReqs == 2
\* Injected failures (store delete errors, unlink errors) in one behaviour.
MaxFaults == 1

Ids == 1..NumIds
Procs == 1..NumProcs

\* ------------------------------------------------------------- strings
\* process.cwd(): the directory every stored path is resolved against.
Cwd == <<"/", "w">>
\* The uploads directory, path.join(process.cwd(), 'uploads').
UPLOADS_DIR == <<"/", "w", "/", "u">>
\* A sibling of the uploads directory whose name starts with its name.
SiblingDir == <<"/", "w", "/", "u", "o">>

\* String.prototype.startsWith
StartsWith(s, pre) ==
    /\ Len(s) >= Len(pre)
    /\ SubSeq(s, 1, Len(pre)) = pre

\* String.prototype.trim, for the blank character " ".
RECURSIVE TrimLeft(_)
TrimLeft(s) ==
    IF s # <<>> /\ Head(s) = " " THEN TrimLeft(Tail(s)) ELSE s

RECURSIVE TrimRight(_)
TrimRight(s) ==
    IF s # <<>> /\ s[Len(s)] = " " THEN TrimRight(SubSeq(s, 1, Len(s) - 1)) ELSE s

Trim(s) == TrimRight(TrimLeft(s))

\* !file.path || file.path.trim() === ''
PathMissing(p) == p = <<>> \/ Trim(p) = <<>>

\* s.split("/"): the segments between separators, empty ones included.
RECURSIVE SplitFrom(_, _, _)
SplitFrom(s, i, cur) ==
    IF i > Len(s) THEN <<cur>>
    ELSE IF s[i] = "/" THEN <<cur>> \o SplitFrom(s, i + 1, <<>>)
    ELSE SplitFrom(s, i + 1, Append(cur, s[i]))

Segments(s) == SplitFrom(s, 1, <<>>)

\* Normalisation of an absolute path's segments: "" and "." are dropped,
\* ".." removes the segment before it and is dropped at the root.
RECURSIVE NormSegs(_, _)
NormSegs(segs, acc) ==
    IF segs = <<>> THEN acc
    ELSE LET s == Head(segs) IN
        IF s = <<>> \/ s = <<".">> THEN NormSegs(Tail(segs), acc)
        ELSE IF s = <<".", ".">>
            THEN NormSegs(Tail(segs),
                          IF acc = <<>> THEN acc ELSE SubSeq(acc, 1, Len(acc) - 1))
            ELSE NormSegs(Tail(segs), Append(acc, s))

RECURSIVE JoinSegs(_)
JoinSegs(segs) ==
    IF segs = <<>> THEN <<>>
    ELSE <<"/">> \o Head(segs) \o JoinSegs(Tail(segs))

AbsPath(segs) == IF segs = <<>> THEN <<"/">> ELSE JoinSegs(segs)

IsAbsolute(p) == p # <<>> /\ Head(p) = "/"

\* path.resolve(from, to) on POSIX, for an absolute `from`: an absolute
\* `to` replaces it; the result is normalised and has no trailing slash.
PathResolve(from, to) ==
    IF IsAbsolute(to) THEN AbsPath(NormSegs(Segments(to), <<>>))
    ELSE AbsPath(NormSegs(Segments(from \o <<"/">> \o to), <<>>))

\* path.join(dir, name) on POSIX, for an absolute `dir`: the two are
\* concatenated with a separator and normalised; an absolute `name` does
\* not replace `dir`, and a trailing separator is kept.
PathJoin(dir, name) ==
    LET raw == IF name = <<>> THEN dir ELSE dir \o <<"/">> \o name
        norm == AbsPath(NormSegs(Segments(raw), <<>>))
    IN  IF raw[Len(raw)] = "/" /\ norm # <<"/">> THEN Append(norm, "/") ELSE norm

\* path.basename(p): the last segment, trailing separators ignored.
Basename(p) ==
    LET segs == NormSegs(Segments(p), <<>>)
    IN  IF segs = <<>> THEN <<>> ELSE segs[Len(segs)]

\* The percent escapes the inputs use: %2F "/", %2E ".", %25 "%".
HexPairs == {<<"2", "F">>, <<"2", "E">>, <<"2", "5">>}
HexChar(h) ==
    IF h = <<"2", "F">> THEN "/"
    ELSE IF h = <<"2", "E">> THEN "."
    ELSE "%"

\* decodeURIComponent(s): every %XX is replaced by its character, once,
\* left to right; a "%" not followed by two hex digits throws URIError.
RECURSIVE DecodeFrom(_, _, _)
DecodeFrom(s, i, acc) ==
    IF i > Len(s) THEN [ok |-> TRUE, val |-> acc]
    ELSE IF s[i] # "%" THEN DecodeFrom(s, i + 1, Append(acc, s[i]))
    ELSE IF i + 2 <= Len(s) /\ SubSeq(s, i + 1, i + 2) \in HexPairs
        THEN DecodeFrom(s, i + 3, Append(acc, HexChar(SubSeq(s, i + 1, i + 2))))
        ELSE [ok |-> FALSE, val |-> <<>>]

decodeURIComponent(s) == DecodeFrom(s, 1, <<>>)

\* ---------------------------------------------------------- filesystem
\* The regular files that can exist: two blobs in the uploads directory,
\* a file outside the working directory (reached by "../s" or "/s"), and
\* a file in the sibling directory that has the basename of a blob.
FileA == <<"/", "w", "/", "u", "/", "a">>
FileB == <<"/", "w", "/", "u", "/", "b">>
FileSecret == <<"/", "s">>
FileSibling == <<"/", "w", "/", "u", "o", "/", "a">>
\* The files POST /upload can create: Date.now() + "-" + the sanitized
\* original name, for one original name and two values of the clock.
FileC == <<"/", "w", "/", "u", "/", "c">>
FileD == <<"/", "w", "/", "u", "/", "d">>
FilePaths == {FileA, FileB, FileSecret, FileSibling, FileC, FileD}

\* The directories; none is created or removed by the program.
Dirs == {<<"/">>, Cwd, UPLOADS_DIR, SiblingDir}

\* Entry names of the uploads directory, in readdir order.
UploadNames == << <<"a">>, <<"b">>, <<"c">>, <<"d">> >>

\* Bytes of each file when it exists.
InitSize(f) == IF f = FileA THEN 2 ELSE 1

\* fs.stat / fs.access on a disk d (d[f] = 0: no such file).
Stat(d, p) ==
    IF p \in Dirs THEN [kind |-> "dir", size |-> 0]
    ELSE IF p \in FilePaths /\ d[p] > 0 THEN [kind |-> "file", size |-> d[p]]
    ELSE [kind |-> "none", size |-> 0]

\* fs.readdir(uploadDir): the names of the entries present.
Readdir(d) ==
    SelectSeq(UploadNames, LAMBDA n : Stat(d, PathJoin(UPLOADS_DIR, n)).kind # "none")

\* ---------------------------------------------------------------- store
NoRec == [type |-> "none", path |-> <<>>, size |-> 0, downloadCount |-> 0]

\* Stored paths a file-type record can carry: the two blobs as the upload
\* names them, an empty path, a path that climbs out of the working
\* directory, and a path with ../ that lands in the sibling directory.
PathA == <<"u", "/", "a">>
PathB == <<"u", "/", "b">>
PathEscape == <<".", ".", "/", "s">>
PathSibling == <<"u", "/", ".", ".", "/", "u", "o", "/", "a">>
StoredPaths == {PathA, PathB, <<>>, PathEscape, PathSibling}

\* File schema (models/File.js): type file|url, path, size, downloadCount
\* (default 0).  A url record is saved with an empty path and size 0.
FileRecs ==
    {[type |-> "file", path |-> sp, size |-> 1, downloadCount |-> 0] : sp \in StoredPaths}
UrlRec == [type |-> "url", path |-> <<>>, size |-> 0, downloadCount |-> 0]

\* Requested names of GET /download-direct/:filename as they stand in the
\* request path (one path segment, so "/" only in escaped form).
RawA == <<"a">>
RawSibling == <<".", ".", "%", "2", "F", "u", "o", "%", "2", "F", "a">>
RawEscape == <<".", ".", "%", "2", "F", ".", ".", "%", "2", "F", "s">>
\* "..%252Fuo%252Fa": a name whose percent signs are themselves encoded; and
\* "%25": the encoding of the one-character name "%".
RawDouble == <<".", ".", "%", "2", "5", "2", "F", "u", "o", "%", "2", "5", "2", "F", "a">>
RawPercent == <<"%", "2", "5">>
RawNames == {RawA, RawSibling, RawEscape, RawDouble, RawPercent}

\* store: the File collection; disk: size of every file (0: absent);
\* proc: the requests in progress; reqs, faults: requests started and
\* failures injected so far; reconciled: history of the ids whose record a
\* download request has deleted on finding its blob missing.
VARIABLES store, disk, proc, reqs, faults, reconciled

\* fresh: the ids no record has had yet (an ObjectId is generated once);
\* stamp: the last Date.now() a generated upload name was built from.
VARIABLES fresh, stamp

uploadVars == <<fresh, stamp>>

\* requests: the rate limiter's Map from client address to the timestamps it
\* recorded; now: the clock Date.now() reads; log: history of the requests
\* the limiter let through, per address; hits: requests the limiter has
\* handled; last: the limiter's last answer; boot: position of connectDB.
VARIABLES requests, now, log, hits, last, boot

serverVars == <<requests, now, log, hits, last, boot>>

vars == <<store, disk, proc, reqs, faults, reconciled, uploadVars, serverVars>>

\* The client addresses the limiter sees.
Addrs == {"x", "y"}

\* The limiter's last answer when it has given none.
NoAnswer == [addr |-> "none", status |-> 0, retryAfter |-> 0]

\* server.js at start-up: an empty Map, and connectDB() about to make its
\* first attempt (i = 0).
ServerInit ==
    /\ requests = [a \in Addrs |-> <<>>]
    /\ now = 0
    /\ log = [a \in Addrs |-> <<>>]
    /\ hits = 0
    /\ last = NoAnswer
    /\ boot = [pc |-> "connect", i |-> 0, attempts |-> 0, failed |-> 0,
               waits |-> <<>>]

\* A request slot with no request in it.
Idle ==
    [pc |-> "idle", op |-> "none", id |-> 0, file |-> NoRec, fullPath |-> <<>>,
     size |-> 0, snap |-> [i \in Ids |-> NoRec], pending |-> {}, todel |-> {}, valid |-> {},
     queue |-> <<>>, expected |-> {}, count |-> 0, errors |-> 0,
     sent |-> 0, handle |-> 0, status |-> 0, name |-> <<>>, entries |-> <<>>,
     removed |-> {}, storeErr |-> FALSE, unlinkErr |-> FALSE, readErr |-> FALSE,
     body |-> "", raw |-> <<>>, kind |-> "none", badCat |-> FALSE]

Init ==
    /\ store \in [Ids -> FileRecs \cup {UrlRec, NoRec}]
    /\ disk \in {d \in [FilePaths -> 0..2] :
                    /\ d[FileSecret] = InitSize(FileSecret)
                    /\ d[FileSibling] = InitSize(FileSibling)
                    /\ d[FileC] = 0 /\ d[FileD] = 0
                    /\ \A f \in {FileA, FileB} : d[f] \in {0, InitSize(f)}}
    /\ proc = [p \in Procs |-> Idle]
    /\ reqs = 0
    /\ faults = 0
    /\ reconciled = {}
    /\ fresh = {i \in Ids : store[i] = NoRec}
    /\ stamp = 0
    /\ ServerInit

\* ----------------------------------------------------------- helpers
\* The containment check of the handlers:
\* fileFullPath.startsWith(path.resolve(process.cwd(), 'uploads')).
InsideUploads(path) == StartsWith(path, PathResolve(Cwd, <<"u">>))

\* File.findByIdAndDelete(id): removes the record; no error when it is gone.
DeleteRec(s, i) == [s EXCEPT ![i] = NoRec]

\* The ids of the set ids, in ascending order.
IdSeq(ids) == SelectSeq([i \in 1..NumIds |-> i], LAMBDA i : i \in ids)

\* A request is taken by the lowest free slot.
CanStart(p) ==
    /\ proc[p].pc = "idle"
    /\ reqs < MaxReqs
    /\ \A q \in Procs : q < p => proc[q].pc # "idle"

\* proc' when slot p becomes r and no file is unlinked.
SetProc(p, r) == proc' = [proc EXCEPT ![p] = r]

\* proc' when slot p becomes r and has unlinked file f: the requests that
\* are listing or downloading note that f went away while they ran.
SetProcUnlinked(p, r, f) ==
    proc' = [q \in Procs |->
                IF q = p THEN r
                ELSE IF proc[q].op \in {"list", "download"}
                    THEN [proc[q] EXCEPT !.removed = @ \cup {f}]
                    ELSE proc[q]]

Done(r, code) == [r EXCEPT !.pc = "done", !.status = code]

\* res.status(code).json({ message: msg }): the response a caller sees.
Reply(r, code, msg) == [Done(r, code) EXCEPT !.body = msg]

\* ------------------------------------------------- GET / (lines 117-199)
\* File.find({type: {$ne: 'url'}}), then the synchronous head of every map
\* callback: a record without a path or with a path outside the uploads
\* directory goes straight to its findByIdAndDelete, the others to access.
\* Mutation of ListFind: File.find() without the filter on type, so that
\* url records are evaluated like file records.
ListFindAllTypes(p) ==
    /\ CanStart(p)
    /\ LET ids == {i \in Ids : store[i].type # "none"}
           bad == {i \in ids : \/ PathMissing(store[i].path)
                               \/ ~InsideUploads(PathResolve(Cwd, store[i].path))}
       IN  SetProc(p, [Idle EXCEPT !.pc = "ls_run", !.op = "list",
                                   !.snap = [i \in Ids |-> IF i \in ids THEN store[i] ELSE NoRec],
                                   !.todel = bad, !.pending = ids \ bad])
    /\ reqs' = reqs + 1
    /\ UNCHANGED <<store, disk, faults, reconciled, uploadVars, serverVars>>

ListFind(p) ==
    /\ CanStart(p)
    /\ LET ids == {i \in Ids : store[i].type = "file"}
           bad == {i \in ids : \/ PathMissing(store[i].path)
                               \/ ~InsideUploads(PathResolve(Cwd, store[i].path))}
       IN  SetProc(p, [Idle EXCEPT !.pc = "ls_run", !.op = "list",
                                   !.snap = [i \in Ids |-> IF i \in ids THEN store[i] ELSE NoRec],
                                   !.todel = bad, !.pending = ids \ bad])
    /\ reqs' = reqs + 1
    /\ UNCHANGED <<store, disk, faults, reconciled, uploadVars, serverVars>>

\* Mutation of ListCheck: the record is returned without a look at the disk.
ListCheckTrustsRecord(p, i) ==
    /\ proc[p].pc = "ls_run"
    /\ i \in proc[p].pending
    /\ SetProc(p, [proc[p] EXCEPT !.pending = @ \ {i},
                       !.valid = @ \cup {[id |-> i, size |-> proc[p].snap[i].size]}])
    /\ UNCHANGED <<store, disk, reqs, faults, reconciled, uploadVars, serverVars>>

\* fsPromises.access and fsPromises.stat of one record (lines 158-175); the
\* two awaits are one observation of the disk, since a failure of either
\* leads to the same catch.
ListCheck(p, i) ==
    /\ proc[p].pc = "ls_run"
    /\ i \in proc[p].pending
    /\ LET st == Stat(disk, PathResolve(Cwd, proc[p].snap[i].path))
       IN  IF st.kind = "file"
           THEN SetProc(p, [proc[p] EXCEPT !.pending = @ \ {i},
                                !.valid = @ \cup {[id |-> i, size |-> st.size]}])
           ELSE SetProc(p, [proc[p] EXCEPT !.pending = @ \ {i},
                                !.todel = @ \cup {i}])
    /\ UNCHANGED <<store, disk, reqs, faults, reconciled, uploadVars, serverVars>>

\* Mutation of ListDelete: a store error while deleting a drifted record
\* reaches the outer catch and ends the request with 500.
ListDeleteAbortsOnError(p, i) ==
    /\ proc[p].pc = "ls_run"
    /\ i \in proc[p].todel
    /\ \/ /\ store' = DeleteRec(store, i)
          /\ SetProc(p, [proc[p] EXCEPT !.todel = @ \ {i}])
          /\ UNCHANGED faults
       \/ /\ faults < MaxFaults
          /\ faults' = faults + 1
          /\ SetProc(p, Done([proc[p] EXCEPT !.todel = @ \ {i}, !.storeErr = TRUE], 500))
          /\ UNCHANGED store
    /\ UNCHANGED <<disk, reqs, reconciled, uploadVars, serverVars>>

\* Mutation of ListDelete: the delete of a record that is already gone is
\* an error that ends the request with 500.
ListDeleteFailsWhenGone(p, i) ==
    /\ proc[p].pc = "ls_run"
    /\ i \in proc[p].todel
    /\ IF store[i] = NoRec
       THEN /\ SetProc(p, Done([proc[p] EXCEPT !.todel = @ \ {i}], 500))
            /\ UNCHANGED <<store, faults>>
       ELSE \/ /\ store' = DeleteRec(store, i)
               /\ SetProc(p, [proc[p] EXCEPT !.todel = @ \ {i}])
               /\ UNCHANGED faults
            \/ /\ faults < MaxFaults
               /\ faults' = faults + 1
               /\ SetProc(p, [proc[p] EXCEPT !.todel = @ \ {i}, !.storeErr = TRUE])
               /\ UNCHANGED store
    /\ UNCHANGED <<disk, reqs, reconciled, uploadVars, serverVars>>

\* await File.findByIdAndDelete(file._id) in its own try/catch: a store
\* error is logged and the record is left out of the list all the same.
ListDelete(p, i) ==
    /\ proc[p].pc = "ls_run"
    /\ i \in proc[p].todel
    /\ \/ /\ store' = DeleteRec(store, i)
          /\ SetProc(p, [proc[p] EXCEPT !.todel = @ \ {i}])
          /\ UNCHANGED faults
       \/ /\ faults < MaxFaults
          /\ faults' = faults + 1
          /\ SetProc(p, [proc[p] EXCEPT !.todel = @ \ {i}, !.storeErr = TRUE])
          /\ UNCHANGED store
    /\ UNCHANGED <<disk, reqs, reconciled, uploadVars, serverVars>>

\* Promise.all has settled: res.json(existingFiles).
ListRespond(p) ==
    /\ proc[p].pc = "ls_run"
    /\ proc[p].pending = {}
    /\ proc[p].todel = {}
    /\ SetProc(p, Done(proc[p], 200))
    /\ UNCHANGED <<store, disk, reqs, faults, reconciled, uploadVars, serverVars>>

\* ------------------------------------- GET /download/:id (lines 249-371)
\* File.findById and the checks up to the first filesystem await.
DownloadFind(p, i) ==
    /\ CanStart(p)
    /\ LET file == store[i]
           filePath == PathResolve(Cwd, file.path)
           r == [Idle EXCEPT !.op = "download", !.id = i, !.file = file]
       IN  IF file = NoRec THEN SetProc(p, Reply(r, 404, "File not found"))
           ELSE IF file.type = "url"
               THEN SetProc(p, Reply(r, 400, "Cannot download URL type files directly"))
           ELSE IF PathMissing(file.path)
               THEN SetProc(p, Reply(r, 404, "File path not found"))
           ELSE IF ~InsideUploads(filePath)
               THEN SetProc(p, Reply([r EXCEPT !.fullPath = filePath], 403, "Access denied"))
               ELSE SetProc(p, [r EXCEPT !.pc = "dl_stat", !.fullPath = filePath])
    /\ reqs' = reqs + 1
    /\ UNCHANGED <<store, disk, faults, reconciled, uploadVars, serverVars>>

\* Mutation of DownloadStat: Content-Length is the size the record declares.
DownloadStatDeclaredSize(p) ==
    /\ proc[p].pc = "dl_stat"
    /\ LET st == Stat(disk, proc[p].fullPath)
       IN  IF st.kind = "file"
           THEN SetProc(p, [proc[p] EXCEPT !.pc = "dl_open", !.size = proc[p].file.size])
           ELSE SetProc(p, [proc[p] EXCEPT !.pc = "dl_delete"])
    /\ UNCHANGED <<store, disk, reqs, faults, reconciled, uploadVars, serverVars>>

\* stats = await fsPromises.stat(filePath); a missing path or a path that
\* is not a regular file leads to the delete of the record, a regular file
\* to the headers (Content-Length: stats.size) and createReadStream.
DownloadStat(p) ==
    /\ proc[p].pc = "dl_stat"
    /\ LET st == Stat(disk, proc[p].fullPath)
       IN  IF st.kind = "file"
           THEN SetProc(p, [proc[p] EXCEPT !.pc = "dl_open", !.size = st.size])
           ELSE SetProc(p, [proc[p] EXCEPT !.pc = "dl_delete"])
    /\ UNCHANGED <<store, disk, reqs, faults, reconciled, uploadVars, serverVars>>

\* Mutation of DownloadDelete: 404 is answered and the record is kept.
DownloadDeleteKeepsRecord(p) ==
    /\ proc[p].pc = "dl_delete"
    /\ SetProc(p, Reply(proc[p], 404, "File not found on server"))
    /\ UNCHANGED <<store, disk, reqs, faults, reconciled, uploadVars, serverVars>>

\* await File.findByIdAndDelete(file._id) in its own try/catch, then 404.
DownloadDelete(p) ==
    /\ proc[p].pc = "dl_delete"
    /\ \/ /\ store' = DeleteRec(store, proc[p].id)
          /\ reconciled' = reconciled \cup {proc[p].id}
          /\ SetProc(p, Reply(proc[p], 404, "File not found on server"))
          /\ UNCHANGED faults
       \/ /\ faults < MaxFaults
          /\ faults' = faults + 1
          /\ SetProc(p, Reply([proc[p] EXCEPT !.storeErr = TRUE], 404,
                                "File not found on server"))
          /\ UNCHANGED <<store, reconciled>>
    /\ UNCHANGED <<disk, reqs, uploadVars, serverVars>>

\* Mutation of DownloadOpen: when the file is gone the response is ended
\* as if the stream had finished.
DownloadOpenEndsEmpty(p) ==
    /\ proc[p].pc = "dl_open"
    /\ LET st == Stat(disk, proc[p].fullPath)
       IN  IF st.kind = "file"
           THEN SetProc(p, [proc[p] EXCEPT !.pc = "dl_stream", !.handle = st.size])
           ELSE SetProc(p, Done(proc[p], 200))
    /\ UNCHANGED <<store, disk, reqs, faults, reconciled, uploadVars, serverVars>>

\* The read stream opens the file after the handler has returned: a file
\* gone by then raises 'error' before anything was written, and the error
\* handler answers 500; an open file is read whatever happens to its name.
DownloadOpen(p) ==
    /\ proc[p].pc = "dl_open"
    /\ LET st == Stat(disk, proc[p].fullPath)
       IN  IF st.kind = "file"
           THEN SetProc(p, [proc[p] EXCEPT !.pc = "dl_stream", !.handle = st.size])
           ELSE SetProc(p, Done(proc[p], 500))
    /\ UNCHANGED <<store, disk, reqs, faults, reconciled, uploadVars, serverVars>>

\* fileStream.pipe(res): one byte of the open file is written; after the
\* last one the stream ends and pipe ends the response.
DownloadStream(p) ==
    /\ proc[p].pc = "dl_stream"
    /\ LET n == proc[p].sent + 1
       IN  IF n >= proc[p].handle
           THEN SetProc(p, Done([proc[p] EXCEPT !.sent = proc[p].handle,
                                                !.handle = 0], 200))
           ELSE SetProc(p, [proc[p] EXCEPT !.sent = n])
    /\ UNCHANGED <<store, disk, reqs, faults, reconciled, uploadVars, serverVars>>

\* fileStream 'error' while the open file is read (lines 338-343): the
\* stream closes its descriptor itself (autoClose).  With nothing written
\* yet the headers are unsent and the handler answers 500; once a chunk has
\* been written the handler does nothing and the response stays open.
DownloadReadError(p) ==
    /\ proc[p].pc = "dl_stream"
    /\ faults < MaxFaults
    /\ faults' = faults + 1
    /\ LET r == [proc[p] EXCEPT !.handle = 0, !.readErr = TRUE]
       IN  IF proc[p].sent = 0
           THEN SetProc(p, Done(r, 500))
           ELSE SetProc(p, [r EXCEPT !.pc = "dl_hung"])
    /\ UNCHANGED <<store, disk, reqs, reconciled, uploadVars, serverVars>>

\* res 'close' before the response has ended (lines 355-360): the client
\* has gone; fileStream is still set, so the handler destroys it.
DownloadClose(p) ==
    /\ proc[p].pc \in {"dl_stream", "dl_hung"}
    /\ SetProc(p, [proc[p] EXCEPT !.pc = "closed", !.handle = 0])
    /\ UNCHANGED <<store, disk, reqs, faults, reconciled, uploadVars, serverVars>>

\* ------------------------ GET /download-direct/:filename (lines 202-246)
\* req.params.filename: the router hands the handler the matched path
\* segment percent-decoded; a malformed escape is answered 400 by the
\* router and never reaches the handler.
ExpressParam(raw) == decodeURIComponent(raw)

\* decodeURIComponent(req.params.filename), path.join(UPLOADS_DIR, filename)
\* and the containment check filePath.startsWith(UPLOADS_DIR).
DirectStart(p, raw) ==
    /\ CanStart(p)
    /\ ExpressParam(raw).ok
    /\ LET filename == decodeURIComponent(ExpressParam(raw).val)
           filePath == PathJoin(UPLOADS_DIR, filename.val)
           r == [Idle EXCEPT !.op = "direct", !.name = filename.val, !.raw = raw]
       IN  IF ~filename.ok THEN SetProc(p, Done(r, 500))
           ELSE IF ~StartsWith(filePath, UPLOADS_DIR)
               THEN SetProc(p, Done([r EXCEPT !.fullPath = filePath], 403))
               ELSE SetProc(p, [r EXCEPT !.pc = "dd_access",
                                         !.fullPath = PathResolve(Cwd, filePath)])
    /\ reqs' = reqs + 1
    /\ UNCHANGED <<store, disk, faults, reconciled, uploadVars, serverVars>>

\* await fsPromises.access(absoluteFilePath), 404 when it fails.
DirectAccess(p) ==
    /\ proc[p].pc = "dd_access"
    /\ IF Stat(disk, proc[p].fullPath).kind = "none"
       THEN SetProc(p, Done(proc[p], 404))
       ELSE SetProc(p, [proc[p] EXCEPT !.pc = "dd_stat"])
    /\ UNCHANGED <<store, disk, reqs, faults, reconciled, uploadVars, serverVars>>

\* await fsPromises.stat(absoluteFilePath): a path gone since the access
\* throws into the outer catch (500); otherwise the headers are set and
\* the read stream is created.
DirectStat(p) ==
    /\ proc[p].pc = "dd_stat"
    /\ LET st == Stat(disk, proc[p].fullPath)
       IN  IF st.kind = "none"
           THEN SetProc(p, Done(proc[p], 500))
           ELSE SetProc(p, [proc[p] EXCEPT !.pc = "dd_open", !.size = st.size])
    /\ UNCHANGED <<store, disk, reqs, faults, reconciled, uploadVars, serverVars>>

\* The read stream opens the file; a missing file or a directory raises
\* 'error' before anything was written and the handler answers 500.
DirectOpen(p) ==
    /\ proc[p].pc = "dd_open"
    /\ LET st == Stat(disk, proc[p].fullPath)
       IN  IF st.kind = "file"
           THEN SetProc(p, [proc[p] EXCEPT !.pc = "dd_stream", !.handle = st.size])
           ELSE SetProc(p, Done(proc[p], 500))
    /\ UNCHANGED <<store, disk, reqs, faults, reconciled, uploadVars, serverVars>>

\* fileStream.pipe(res), byte by byte as in DownloadStream.
DirectStream(p) ==
    /\ proc[p].pc = "dd_stream"
    /\ LET n == proc[p].sent + 1
       IN  IF n >= proc[p].handle
           THEN SetProc(p, Done([proc[p] EXCEPT !.sent = proc[p].handle,
                                                !.handle = 0], 200))
           ELSE SetProc(p, [proc[p] EXCEPT !.sent = n])
    /\ UNCHANGED <<store, disk, reqs, faults, reconciled, uploadVars, serverVars>>

\* fileStream 'error' while the open file is read (lines 232-237), as in
\* DownloadReadError.
DirectReadError(p) ==
    /\ proc[p].pc = "dd_stream"
    /\ faults < MaxFaults
    /\ faults' = faults + 1
    /\ LET r == [proc[p] EXCEPT !.handle = 0, !.readErr = TRUE]
       IN  IF proc[p].sent = 0
           THEN SetProc(p, Done(r, 500))
           ELSE SetProc(p, [r EXCEPT !.pc = "dd_hung"])
    /\ UNCHANGED <<store, disk, reqs, reconciled, uploadVars, serverVars>>

\* The client goes away before the response has ended.  The handler has no
\* 'close' listener: pipe (line 239) unpipes the closed response and leaves
\* the read stream as it is, open and paused.
DirectClose(p) ==
    /\ proc[p].pc \in {"dd_stream", "dd_hung"}
    /\ SetProc(p, [proc[p] EXCEPT !.pc = "closed"])
    /\ UNCHANGED <<store, disk, reqs, faults, reconciled, uploadVars, serverVars>>

\* ------------------------------------------- DELETE /:id (lines 642-666)
\* File.findById, 404 when there is no record; the stored path is resolved
\* with no containment check.
DeleteFind(p, i) ==
    /\ CanStart(p)
    /\ LET file == store[i]
           r == [Idle EXCEPT !.op = "delete", !.id = i, !.file = file]
       IN  IF file = NoRec THEN SetProc(p, Done(r, 404))
           ELSE SetProc(p, [r EXCEPT !.pc = "del_unlink",
                                     !.fullPath = PathResolve(Cwd, file.path)])
    /\ reqs' = reqs + 1
    /\ UNCHANGED <<store, disk, faults, reconciled, uploadVars, serverVars>>

\* await fsPromises.unlink(fileFullPath) in its own try/catch: the file is
\* removed, or the unlink fails (no such file, a directory, an injected
\* error) and the failure is logged and skipped.
DeleteUnlink(p) ==
    /\ proc[p].pc = "del_unlink"
    /\ LET f == proc[p].fullPath
           r == [proc[p] EXCEPT !.pc = "del_delete"]
       IN  IF Stat(disk, f).kind = "file"
           THEN \/ /\ disk' = [disk EXCEPT ![f] = 0]
                   /\ SetProcUnlinked(p, r, f)
                   /\ UNCHANGED faults
                \/ /\ faults < MaxFaults
                   /\ faults' = faults + 1
                   /\ SetProc(p, [r EXCEPT !.unlinkErr = TRUE])
                   /\ UNCHANGED disk
           ELSE /\ SetProc(p, [r EXCEPT !.unlinkErr = TRUE])
                /\ UNCHANGED <<disk, faults>>
    /\ UNCHANGED <<store, reqs, reconciled, uploadVars, serverVars>>

\* await File.findByIdAndDelete(req.params.id): 200, or 500 from the outer
\* catch when the store fails.
DeleteRecord(p) ==
    /\ proc[p].pc = "del_delete"
    /\ \/ /\ store' = DeleteRec(store, proc[p].id)
          /\ SetProc(p, Done(proc[p], 200))
          /\ UNCHANGED faults
       \/ /\ faults < MaxFaults
          /\ faults' = faults + 1
          /\ SetProc(p, Done([proc[p] EXCEPT !.storeErr = TRUE], 500))
          /\ UNCHANGED store
    /\ UNCHANGED <<disk, reqs, reconciled, uploadVars, serverVars>>

\* ------------------------------------- PUT /:id/download (lines 730-754)
\* File.findByIdAndUpdate(id, {$inc: {downloadCount: 1}}, {new: true}): one
\* atomic update of the store; 404 when there is no such record.
IncrementDownload(p, i) ==
    /\ CanStart(p)
    /\ LET r == [Idle EXCEPT !.op = "count", !.id = i, !.file = store[i]]
       IN  IF store[i] = NoRec
           THEN /\ SetProc(p, Done(r, 404))
                /\ UNCHANGED store
           ELSE /\ store' = [store EXCEPT ![i].downloadCount = @ + 1]
                /\ SetProc(p, Done([r EXCEPT !.count = store[i].downloadCount + 1], 200))
    /\ reqs' = reqs + 1
    /\ UNCHANGED <<disk, faults, reconciled, uploadVars, serverVars>>

\* ---------------------------------- POST /cleanup-orphaned (lines 535-574)
\* File.find({type: 'file'}); the records are then visited one at a time.
CleanupFind(p) ==
    /\ CanStart(p)
    /\ LET ids == {i \in Ids : store[i].type = "file"}
       IN  SetProc(p, [Idle EXCEPT !.pc = "cl_access", !.op = "cleanup",
                                   !.snap = [i \in Ids |-> IF i \in ids THEN store[i] ELSE NoRec],
                                   !.queue = IdSeq(ids)])
    /\ reqs' = reqs + 1
    /\ UNCHANGED <<store, disk, faults, reconciled, uploadVars, serverVars>>

\* await fsPromises.access(path.resolve(process.cwd(), file.path)), with no
\* containment check: the loop goes on when the path exists, and to the
\* delete of the record when it does not.
CleanupAccess(p) ==
    /\ proc[p].pc = "cl_access"
    /\ proc[p].queue # <<>>
    /\ LET i == Head(proc[p].queue)
           f == PathResolve(Cwd, proc[p].snap[i].path)
       IN  IF Stat(disk, f).kind # "none"
           THEN SetProc(p, [proc[p] EXCEPT !.queue = Tail(@), !.fullPath = f])
           ELSE SetProc(p, [proc[p] EXCEPT !.pc = "cl_delete", !.fullPath = f])
    /\ UNCHANGED <<store, disk, reqs, faults, reconciled, uploadVars, serverVars>>

\* Mutation of CleanupDelete: a store error ends the sweep with 500.
CleanupDeleteAborts(p) ==
    /\ proc[p].pc = "cl_delete"
    /\ LET i == Head(proc[p].queue)
           r == [proc[p] EXCEPT !.pc = "cl_access", !.queue = Tail(@)]
       IN  \/ /\ store' = DeleteRec(store, i)
              /\ SetProc(p, [r EXCEPT !.count = @ + 1])
              /\ UNCHANGED faults
           \/ /\ faults < MaxFaults
              /\ faults' = faults + 1
              /\ SetProc(p, Done([proc[p] EXCEPT !.storeErr = TRUE], 500))
              /\ UNCHANGED store
    /\ UNCHANGED <<disk, reqs, reconciled, uploadVars, serverVars>>

\* await File.findByIdAndDelete(file._id): cleanedCount++, or the error is
\* pushed to errors.
CleanupDelete(p) ==
    /\ proc[p].pc = "cl_delete"
    /\ LET i == Head(proc[p].queue)
           r == [proc[p] EXCEPT !.pc = "cl_access", !.queue = Tail(@)]
       IN  \/ /\ store' = DeleteRec(store, i)
              /\ SetProc(p, [r EXCEPT !.count = @ + 1])
              /\ UNCHANGED faults
           \/ /\ faults < MaxFaults
              /\ faults' = faults + 1
              /\ SetProc(p, [r EXCEPT !.errors = @ + 1, !.storeErr = TRUE])
              /\ UNCHANGED store
    /\ UNCHANGED <<disk, reqs, reconciled, uploadVars, serverVars>>

\* res.json({message, cleanedCount, errors}) after the loop.
CleanupRespond(p) ==
    /\ proc[p].pc = "cl_access"
    /\ proc[p].queue = <<>>
    /\ SetProc(p, Done(proc[p], 200))
    /\ UNCHANGED <<store, disk, reqs, faults, reconciled, uploadVars, serverVars>>

\* -------------------------------------- cleanupOrphanedFiles (lines 12-60)
\* Mutation of ExpectedFiles: the resolved paths are kept whole, so no
\* directory entry name is ever among them.
ExpectedFullPaths(s) ==
    {PathResolve(Cwd, s[i].path) :
        i \in {j \in Ids : s[j].type = "file" /\ s[j].path # <<>>}}

\* The basenames the sweep expects to find (lines 30-37): one for every
\* file-type record with a non-empty path, whatever directory it names.
ExpectedFiles(s) ==
    {Basename(PathResolve(Cwd, s[i].path)) :
        i \in {j \in Ids : s[j].type = "file" /\ s[j].path # <<>>}}

\* The for loop up to its next unlink: entries that are expected are
\* passed over.
RECURSIVE SkipExpected(_, _)
SkipExpected(q, expected) ==
    IF q # <<>> /\ Head(q) \in expected THEN SkipExpected(Tail(q), expected) ELSE q

\* uploadedFiles = await fsPromises.readdir(uploadDir)
SweepReaddir(p) ==
    /\ CanStart(p)
    /\ SetProc(p, [Idle EXCEPT !.pc = "sw_find", !.op = "sweep",
                               !.entries = Readdir(disk), !.queue = Readdir(disk)])
    /\ reqs' = reqs + 1
    /\ UNCHANGED <<store, disk, faults, reconciled, uploadVars, serverVars>>

\* dbFiles = await File.find({type: 'file'}, 'path filename'), the set of
\* expected basenames, and the loop up to the first orphan.
SweepFind(p) ==
    /\ proc[p].pc = "sw_find"
    /\ LET expected == ExpectedFiles(store)
           q == SkipExpected(proc[p].queue, expected)
           r == [proc[p] EXCEPT !.expected = expected, !.queue = q]
       IN  IF q = <<>> THEN SetProc(p, Done(r, 200))
           ELSE SetProc(p, [r EXCEPT !.pc = "sw_unlink"])
    /\ UNCHANGED <<store, disk, reqs, faults, reconciled, uploadVars, serverVars>>

\* Mutation of SweepUnlink: an entry that is already gone is counted too.
SweepUnlinkCountsGone(p) ==
    /\ proc[p].pc = "sw_unlink"
    /\ LET f == PathJoin(UPLOADS_DIR, Head(proc[p].queue))
           q == SkipExpected(Tail(proc[p].queue), proc[p].expected)
           r == IF q = <<>> THEN Done([proc[p] EXCEPT !.queue = q], 200)
                ELSE [proc[p] EXCEPT !.queue = q]
       IN  IF Stat(disk, f).kind = "file"
           THEN \/ /\ disk' = [disk EXCEPT ![f] = 0]
                   /\ SetProcUnlinked(p, [r EXCEPT !.count = @ + 1], f)
                   /\ UNCHANGED faults
                \/ /\ faults < MaxFaults
                   /\ faults' = faults + 1
                   /\ SetProc(p, [r EXCEPT !.errors = @ + 1, !.unlinkErr = TRUE])
                   /\ UNCHANGED disk
           ELSE /\ SetProc(p, [r EXCEPT !.count = @ + 1])
                /\ UNCHANGED <<disk, faults>>
    /\ UNCHANGED <<store, reqs, reconciled, uploadVars, serverVars>>

\* Mutation of SweepUnlink: a failed unlink ends the sweep at once.
SweepUnlinkAborts(p) ==
    /\ proc[p].pc = "sw_unlink"
    /\ LET f == PathJoin(UPLOADS_DIR, Head(proc[p].queue))
           q == SkipExpected(Tail(proc[p].queue), proc[p].expected)
           r == IF q = <<>> THEN Done([proc[p] EXCEPT !.queue = q], 200)
                ELSE [proc[p] EXCEPT !.queue = q]
           fail == Done([proc[p] EXCEPT !.errors = @ + 1, !.unlinkErr = TRUE], 500)
       IN  IF Stat(disk, f).kind = "file"
           THEN \/ /\ disk' = [disk EXCEPT ![f] = 0]
                   /\ SetProcUnlinked(p, [r EXCEPT !.count = @ + 1], f)
                   /\ UNCHANGED faults
                \/ /\ faults < MaxFaults
                   /\ faults' = faults + 1
                   /\ SetProc(p, fail)
                   /\ UNCHANGED disk
           ELSE /\ SetProc(p, fail)
                /\ UNCHANGED <<disk, faults>>
    /\ UNCHANGED <<store, reqs, reconciled, uploadVars, serverVars>>

\* await fsPromises.unlink(path.join(uploadDir, uploadedFile)) in its own
\* try/catch: deletedCount++ on success, the error logged otherwise; then
\* the loop runs to the next orphan or to the return of deletedCount.
SweepUnlink(p) ==
    /\ proc[p].pc = "sw_unlink"
    /\ LET f == PathJoin(UPLOADS_DIR, Head(proc[p].queue))
           q == SkipExpected(Tail(proc[p].queue), proc[p].expected)
           r == IF q = <<>> THEN Done([proc[p] EXCEPT !.queue = q], 200)
                ELSE [proc[p] EXCEPT !.queue = q]
       IN  IF Stat(disk, f).kind = "file"
           THEN \/ /\ disk' = [disk EXCEPT ![f] = 0]
                   /\ SetProcUnlinked(p, [r EXCEPT !.count = @ + 1], f)
                   /\ UNCHANGED faults
                \/ /\ faults < MaxFaults
                   /\ faults' = faults + 1
                   /\ SetProc(p, [r EXCEPT !.errors = @ + 1, !.unlinkErr = TRUE])
                   /\ UNCHANGED disk
           ELSE /\ SetProc(p, [r EXCEPT !.errors = @ + 1, !.unlinkErr = TRUE])
                /\ UNCHANGED <<disk, faults>>
    /\ UNCHANGED <<store, reqs, reconciled, uploadVars, serverVars>>

\* ------------------------------------------------------- POST /upload
\* What a client sends: a file, a url, or both in one form; and a
\* categoryId that mongoose.Types.ObjectId accepts or rejects.
UploadKinds == {"file", "url", "both"}

\* filename of the multer storage: Date.now() + "-" + sanitizedName, for the
\* clock value t; all uploads of the model carry the same original name.
StoredName(t) == IF t <= 1 THEN <<"c">> ELSE <<"d">>

\* req.file.path: destination "uploads/" joined with the generated name.
UploadPath(t) == <<"u", "/">> \o StoredName(t)

\* The id the next record gets: an ObjectId no record has had.
NewId == CHOOSE i \in fresh : \A j \in fresh : i <= j

\* upload.single('file') has written the file (when the form has one) and
\* the handler runs up to its first await: the url branch builds the url
\* record, the file branch goes to stat. new mongoose.Types.ObjectId of an
\* invalid categoryId throws into the outer catch.
UploadStart(p, kind, badCat, t) ==
    /\ CanStart(p)
    /\ fresh # {}
    /\ t \in {stamp, stamp + 1} /\ t >= 1
    /\ LET hasFile == kind # "url"
           f == PathResolve(Cwd, UploadPath(t))
           r == [Idle EXCEPT !.op = "upload", !.id = NewId, !.kind = kind,
                             !.badCat = badCat,
                             !.fullPath = IF hasFile THEN f ELSE <<>>]
           rec == [type |-> "file", path |-> UploadPath(t), size |-> 0,
                   downloadCount |-> 0]
       IN  /\ IF hasFile
              THEN disk' = [disk EXCEPT ![f] = InitSize(f)] /\ stamp' = t
              ELSE UNCHANGED <<disk, stamp>>
           /\ IF kind = "file"
              THEN SetProc(p, [r EXCEPT !.pc = "up_stat", !.file = rec])
              ELSE IF ~badCat
                  THEN SetProc(p, [r EXCEPT !.pc = "up_save", !.file = UrlRec])
                  ELSE IF hasFile THEN SetProc(p, [r EXCEPT !.pc = "up_cleanup"])
                  ELSE SetProc(p, Done(r, 500))
    /\ fresh' = fresh \ {NewId}
    /\ reqs' = reqs + 1
    /\ UNCHANGED <<store, faults, reconciled, serverVars>>

\* stats = await fsPromises.stat(req.file.path): on failure the inner catch
\* unlinks and answers 500; on success new File({..., size: stats.size}),
\* where an invalid categoryId throws into the outer catch.
UploadStat(p) ==
    /\ proc[p].pc = "up_stat"
    /\ LET st == Stat(disk, proc[p].fullPath)
       IN  \/ /\ IF st.kind = "file" /\ ~proc[p].badCat
                 THEN SetProc(p, [proc[p] EXCEPT !.pc = "up_save",
                                                 !.file.size = st.size,
                                                 !.size = st.size])
                 ELSE SetProc(p, [proc[p] EXCEPT !.pc = "up_cleanup"])
              /\ UNCHANGED faults
           \/ /\ faults < MaxFaults
              /\ faults' = faults + 1
              /\ SetProc(p, [proc[p] EXCEPT !.pc = "up_cleanup"])
    /\ UNCHANGED <<store, disk, reqs, reconciled, uploadVars, serverVars>>

\* await file.save(), then 201; a store error goes to the outer catch,
\* which unlinks req.file when there is one and answers 500.
UploadSave(p) ==
    /\ proc[p].pc = "up_save"
    /\ \/ /\ store' = [store EXCEPT ![proc[p].id] = proc[p].file]
          /\ SetProc(p, Done(proc[p], 201))
          /\ UNCHANGED faults
       \/ /\ faults < MaxFaults
          /\ faults' = faults + 1
          /\ IF proc[p].fullPath # <<>>
             THEN SetProc(p, [proc[p] EXCEPT !.pc = "up_cleanup", !.storeErr = TRUE])
             ELSE SetProc(p, Done([proc[p] EXCEPT !.storeErr = TRUE], 500))
          /\ UNCHANGED store
    /\ UNCHANGED <<disk, reqs, reconciled, uploadVars, serverVars>>

\* await fsPromises.unlink(req.file.path) in a try/catch of its own (inner
\* catch of the stat, and outer catch), then the 500.
UploadCleanup(p) ==
    /\ proc[p].pc = "up_cleanup"
    /\ LET f == proc[p].fullPath
       IN  IF Stat(disk, f).kind = "file"
           THEN \/ /\ disk' = [disk EXCEPT ![f] = 0]
                   /\ SetProcUnlinked(p, Done(proc[p], 500), f)
                   /\ UNCHANGED faults
                \/ /\ faults < MaxFaults
                   /\ faults' = faults + 1
                   /\ SetProc(p, Done([proc[p] EXCEPT !.unlinkErr = TRUE], 500))
                   /\ UNCHANGED disk
           ELSE /\ SetProc(p, Done([proc[p] EXCEPT !.unlinkErr = TRUE], 500))
                /\ UNCHANGED <<disk, faults>>
    /\ UNCHANGED <<store, reqs, reconciled, uploadVars, serverVars>>

\* The response has been sent (or the sweep has returned) or the client has
\* gone, and no read stream of the request holds a descriptor: the slot is
\* free.  A stream that stays open keeps its request's state with it.
Finish(p) ==
    /\ \/ proc[p].pc = "done"
       \/ proc[p].pc = "closed" /\ proc[p].handle = 0
    /\ SetProc(p, Idle)
    /\ UNCHANGED <<store, disk, reqs, faults, reconciled, uploadVars, serverVars>>

\* ------------------------------------------------------------ server.js
\* rateLimit(windowMs, max): the window, in milliseconds, and the number of
\* requests it admits, scaled down from 15 * 60 * 1000 and 100.
windowMs == 3
max == 2

\* The clock stops at MaxNow and the limiter handles MaxHits requests.
MaxNow == 4
MaxHits == 5

\* connectDB(retries = 3).
retries == 3

\* Math.ceil(x / d) for integers.
Ceil(x, d) == (x + d - 1) \div d

\* Date.now() advances by a millisecond.
Tick ==
    /\ now < MaxNow
    /\ now' = now + 1
    /\ UNCHANGED <<store, disk, proc, reqs, faults, reconciled, uploadVars,
                   requests, log, hits, last, boot>>

\* requests after the cleanup loop that runs with probability 0.01: a key
\* goes when its list is empty or its first timestamp is before windowStart.
CleanUp(map, windowStart) ==
    [key \in Addrs |->
        IF Len(map[key]) = 0 \/ map[key][1] < windowStart THEN <<>> ELSE map[key]]

\* The middleware for one request from address ip; cleanup is the outcome
\* of Math.random() < 0.01. An address with no key reads as the empty list.
RateLimit(ip, cleanup) ==
    /\ hits < MaxHits
    /\ boot.pc # "exited"
    /\ LET windowStart == now - windowMs
           ipRequests == requests[ip]
           validRequests == SelectSeq(ipRequests, LAMBDA time : time > windowStart)
           pushed == [requests EXCEPT ![ip] = Append(validRequests, now)]
       IN  IF Len(validRequests) >= max
           THEN /\ last' = [addr |-> ip, status |-> 429,
                            retryAfter |-> Ceil(validRequests[1] + windowMs - now, 1000)]
                /\ UNCHANGED <<requests, log>>
           ELSE /\ requests' = IF cleanup THEN CleanUp(pushed, windowStart) ELSE pushed
                /\ log' = [log EXCEPT ![ip] = Append(@, now)]
                /\ last' = [addr |-> ip, status |-> 200, retryAfter |-> 0]
    /\ hits' = hits + 1
    /\ UNCHANGED <<store, disk, proc, reqs, faults, reconciled, uploadVars, now, boot>>

\* Mutation of BootConnect: the wait also follows the last failed attempt
\* (i < retries in place of i < retries - 1).
BootConnectWaitsAfterLast(ok) ==
    /\ boot.pc = "connect"
    /\ IF boot.i >= retries
       THEN boot' = [boot EXCEPT !.pc = "exited"]
       ELSE IF ok
           THEN boot' = [boot EXCEPT !.pc = "connected", !.attempts = @ + 1]
           ELSE boot' = [boot EXCEPT !.pc = "wait", !.attempts = @ + 1,
                                     !.failed = @ + 1]
    /\ UNCHANGED <<store, disk, proc, reqs, faults, reconciled, uploadVars,
                   requests, now, log, hits, last>>

\* One turn of the loop of connectDB: await mongoose.connect resolves (ok)
\* and the function returns, or it rejects; then the wait when
\* i < retries - 1, and process.exit(1) when the loop has run out.
BootConnect(ok) ==
    /\ boot.pc = "connect"
    /\ boot.i < retries
    /\ IF ok
       THEN boot' = [boot EXCEPT !.pc = "connected", !.attempts = @ + 1]
       ELSE IF boot.i < retries - 1
           THEN boot' = [boot EXCEPT !.pc = "wait", !.attempts = @ + 1,
                                     !.failed = @ + 1]
           ELSE boot' = [boot EXCEPT !.pc = "exited", !.i = @ + 1,
                                     !.attempts = @ + 1, !.failed = @ + 1]
    /\ UNCHANGED <<store, disk, proc, reqs, faults, reconciled, uploadVars,
                   requests, now, log, hits, last>>

\* The timer of (i + 1) * 1000 ms fires and the loop goes to i + 1; waits
\* records the seconds waited.
BootWait ==
    /\ boot.pc = "wait"
    /\ boot' = [boot EXCEPT !.pc = "connect", !.i = @ + 1,
                            !.waits = Append(@, boot.i + 1)]
    /\ UNCHANGED <<store, disk, proc, reqs, faults, reconciled, uploadVars,
                   requests, now, log, hits, last>>

\* ------------------------------------------------------- specification
Step(p) ==
    \/ ListFind(p)
    \/ \E i \in Ids : ListCheck(p, i)
    \/ \E i \in Ids : ListDelete(p, i)
    \/ ListRespond(p)
    \/ \E i \in Ids : DownloadFind(p, i)
    \/ DownloadStat(p)
    \/ DownloadDelete(p)
    \/ DownloadOpen(p)
    \/ DownloadStream(p)
    \/ DownloadReadError(p)
    \/ DownloadClose(p)
    \/ \E raw \in RawNames : DirectStart(p, raw)
    \/ DirectAccess(p)
    \/ DirectStat(p)
    \/ DirectOpen(p)
    \/ DirectStream(p)
    \/ DirectReadError(p)
    \/ DirectClose(p)
    \/ \E i \in Ids : DeleteFind(p, i)
    \/ DeleteUnlink(p)
    \/ DeleteRecord(p)
    \/ \E i \in Ids : IncrementDownload(p, i)
    \/ CleanupFind(p)
    \/ CleanupAccess(p)
    \/ CleanupDelete(p)
    \/ CleanupRespond(p)
    \/ SweepReaddir(p)
    \/ SweepFind(p)
    \/ SweepUnlink(p)
    \/ \E kind \in UploadKinds : \E badCat \in BOOLEAN : \E t \in 1..NumIds :
            UploadStart(p, kind, badCat, t)
    \/ UploadStat(p)
    \/ UploadSave(p)
    \/ UploadCleanup(p)
    \/ Finish(p)

\* Requests interleave at every await.
Next == \E p \in Procs : Step(p)

Spec == Init /\ [][Next]_vars

\* One request at a time: a slot steps only while every other slot is idle.
Alone(p) == \A q \in Procs \ {p} : proc[q].pc = "idle"

SeqNext ==
    \E p \in Procs :
        \/ Alone(p) /\ ListFind(p)
        \/ Alone(p) /\ (\E i \in Ids : ListCheck(p, i))
        \/ Alone(p) /\ (\E i \in Ids : ListDelete(p, i))
        \/ Alone(p) /\ ListRespond(p)
        \/ Alone(p) /\ (\E i \in Ids : DownloadFind(p, i))
        \/ Alone(p) /\ DownloadStat(p)
        \/ Alone(p) /\ DownloadDelete(p)
        \/ Alone(p) /\ DownloadOpen(p)
        \/ Alone(p) /\ DownloadStream(p)
        \/ Alone(p) /\ DownloadReadError(p)
        \/ Alone(p) /\ DownloadClose(p)
        \/ Alone(p) /\ (\E raw \in RawNames : DirectStart(p, raw))
        \/ Alone(p) /\ DirectAccess(p)
        \/ Alone(p) /\ DirectStat(p)
        \/ Alone(p) /\ DirectOpen(p)
        \/ Alone(p) /\ DirectStream(p)
        \/ Alone(p) /\ DirectReadError(p)
        \/ Alone(p) /\ DirectClose(p)
        \/ Alone(p) /\ (\E i \in Ids : DeleteFind(p, i))
        \/ Alone(p) /\ DeleteUnlink(p)
        \/ Alone(p) /\ DeleteRecord(p)
        \/ Alone(p) /\ (\E i \in Ids : IncrementDownload(p, i))
        \/ Alone(p) /\ CleanupFind(p)
        \/ Alone(p) /\ CleanupAccess(p)
        \/ Alone(p) /\ CleanupDelete(p)
        \/ Alone(p) /\ CleanupRespond(p)
        \/ Alone(p) /\ SweepReaddir(p)
        \/ Alone(p) /\ SweepFind(p)
        \/ Alone(p) /\ SweepUnlink(p)
        \/ Alone(p) /\ (\E kind \in UploadKinds : \E badCat \in BOOLEAN :
                            \E t \in 1..NumIds : UploadStart(p, kind, badCat, t))
        \/ Alone(p) /\ UploadStat(p)
        \/ Alone(p) /\ UploadSave(p)
        \/ Alone(p) /\ UploadCleanup(p)
        \/ Alone(p) /\ Finish(p)

SeqSpec == Init /\ [][SeqNext]_vars

\* The server before any file request: an empty store and uploads directory.
ServerStart ==
    /\ Init
    /\ store = [i \in Ids |-> NoRec]
    /\ \A f \in {FileA, FileB} : disk[f] = 0

ServerNext ==
    \/ Tick
    \/ \E ip \in Addrs : \E cleanup \in BOOLEAN : RateLimit(ip, cleanup)
    \/ \E ok \in BOOLEAN : BootConnect(ok)
    \/ BootWait

\* What connectDB does by itself: mongoose.connect settles and the timer
\* of a wait fires.
BootStep == (\E ok \in BOOLEAN : BootConnect(ok)) \/ BootWait

\* The middleware and the start-up of server.js: requests arrive and time
\* passes at will, and connectDB goes on whenever it can.
ServerSpec == ServerStart /\ [][ServerNext]_vars /\ WF_vars(BootStep)

\* What the server does by itself once a download is in: every step of
\* the two download handlers and of their read streams but the arrival of
\* the request, a read error of the disk and the client's closing of the
\* connection.
Progress(p) ==
    \/ DownloadStat(p)
    \/ DownloadDelete(p)
    \/ DownloadOpen(p)
    \/ DownloadStream(p)
    \/ DirectAccess(p)
    \/ DirectStat(p)
    \/ DirectOpen(p)
    \/ DirectStream(p)
    \/ Finish(p)

\* One request at a time, and the event loop runs every pending callback
\* of a download: a download that can go on does go on.
LiveSpec == Init /\ [][SeqNext]_vars /\ \A p \in Procs : WF_vars(Alone(p) /\ Progress(p))

\* ======================================================== properties
\* The managed-directory containment of section 4.1: the path is the
\* uploads directory followed by a separator and at least one character.
StrictlyInside(path) ==
    /\ StartsWith(path, UPLOADS_DIR \o <<"/">>)
    /\ Len(path) > Len(UPLOADS_DIR) + 1

\* The record names a place where nothing is on the disk.
BlobAbsent(rec) == Stat(disk, PathResolve(Cwd, rec.path)).kind = "none"

\* The record has a blob: a regular file of the managed directory.
BlobExists(rec) ==
    /\ ~PathMissing(rec.path)
    /\ StrictlyInside(PathResolve(Cwd, rec.path))
    /\ Stat(disk, PathResolve(Cwd, rec.path)).kind = "file"

\* Slot p holds a finished request of kind op.
Finished(p, op) == proc[p].op = op /\ proc[p].pc = "done"

C1_FirstCall ==
    \A p \in Procs :
        (/\ Finished(p, "download")
         /\ proc[p].file.type = "file"
         /\ StrictlyInside(PathResolve(Cwd, proc[p].file.path))
         /\ BlobAbsent(proc[p].file))
            => /\ proc[p].status = 404
               /\ ~proc[p].storeErr => /\ store[proc[p].id] = NoRec
                                       /\ proc[p].id \in reconciled

\* Every call for an id whose record a download has deleted answers 404.
C1_LaterCall ==
    \A p \in Procs :
        (Finished(p, "download") /\ proc[p].id \in reconciled) => proc[p].status = 404

\* A GET /download/:id that starts for such an id ends at once with 404 and
\* leaves the store and the disk as they are.
C1_NoEffect ==
    \A p \in Procs :
        (/\ proc[p].pc = "idle"
         /\ proc'[p].op = "download"
         /\ proc'[p].id \in reconciled)
            => /\ proc'[p].pc = "done"
               /\ proc'[p].status = 404
               /\ store' = store
               /\ disk' = disk

C2_AsStated ==
    \A p \in Procs :
        (/\ Finished(p, "download")
         /\ proc[p].file.type = "file"
         /\ ~PathMissing(proc[p].file.path)
         /\ ~StrictlyInside(PathResolve(Cwd, proc[p].file.path)))
            => (proc[p].status = 403 /\ store[proc[p].id] = NoRec)

\* ------------------------------------------------------------------ C3
\* C3 as stated: with no store failure and no other request, GET / returns
\* exactly the file-type records whose blob exists, and afterwards the
\* store holds exactly those file-type records.
C3_AsStated ==
    \A p \in Procs :
        (Finished(p, "list") /\ ~proc[p].storeErr)
            => LET good == {i \in Ids : proc[p].snap[i].type = "file"
                                        /\ BlobExists(proc[p].snap[i])}
               IN  /\ {v.id : v \in proc[p].valid} = good
                   /\ {i \in Ids : store[i].type = "file"} = good

\* ------------------------------------------------------------------ C4
\* The paths slot p is about to probe or unlink for a record's stored
\* path, in DELETE /:id, POST /cleanup-orphaned, GET / and GET /download/:id.
NextTouched(p) ==
    LET r == proc[p]
    IN  IF r.pc = "del_unlink" /\ ~PathMissing(r.file.path) THEN {r.fullPath}
        ELSE IF r.pc = "cl_access" /\ r.queue # <<>>
                /\ ~PathMissing(r.snap[Head(r.queue)].path)
            THEN {PathResolve(Cwd, r.snap[Head(r.queue)].path)}
        ELSE IF r.pc = "ls_run"
            THEN {PathResolve(Cwd, r.snap[i].path) : i \in r.pending}
        ELSE IF r.pc \in {"dl_stat", "dl_open"} THEN {r.fullPath}
        ELSE {}

\* C4 as stated: no request probes or unlinks, for a record's stored path,
\* a path outside the uploads directory.
C4_AsStated == \A p \in Procs : \A path \in NextTouched(p) : StrictlyInside(path)

\* ------------------------------------------------------------------ C5
\* The resolved paths the containment check of slot p has accepted, in
\* GET /, GET /download/:id and GET /download-direct/:filename.
Accepted(p) ==
    LET r == proc[p]
    IN  IF r.pc \in {"dl_stat", "dl_delete", "dl_open", "dl_stream",
                     "dd_access", "dd_stat", "dd_open", "dd_stream"}
        THEN {r.fullPath}
        ELSE IF r.op = "list"
            THEN {PathResolve(Cwd, r.snap[i].path) :
                     i \in r.pending \cup {v.id : v \in r.valid}}
            ELSE {}

\* C5 as stated: the check accepts a path only if it is the uploads
\* directory followed by a separator and more, so a path into a sibling
\* directory whose name starts with "uploads" is rejected.
C5_AsStated ==
    \A p \in Procs : \A path \in Accepted(p) :
        /\ StrictlyInside(path)
        /\ ~StartsWith(path, SiblingDir \o <<"/">>)

\* ------------------------------------------------------------------ C6
\* The text holds a ".." segment.
HasDotDot(t) == \E k \in 1..Len(Segments(t)) : Segments(t)[k] = <<".", ".">>

\* A stored path or requested name with ../ or an absolute path, whose
\* target lies outside the uploads directory.
LeadsOut(t, target) == (HasDotDot(t) \/ IsAbsolute(t)) /\ ~StrictlyInside(target)

\* C6 as stated: for such a path or name neither download endpoint gets to
\* a stat or a read stream, and the listing does not return the record.
C6_AsStated ==
    \A p \in Procs :
        LET r == proc[p]
        IN  /\ (r.op = "download" /\ LeadsOut(r.file.path, PathResolve(Cwd, r.file.path)))
                => (r.pc \in {"done"} /\ r.status = 403 /\ r.sent = 0)
            /\ (r.op = "direct" /\ LeadsOut(r.name, PathJoin(UPLOADS_DIR, r.name)))
                => (r.pc \in {"done"} /\ r.status = 403 /\ r.sent = 0)
            /\ r.op = "list"
                => \A v \in r.valid :
                       ~LeadsOut(r.snap[v.id].path, PathResolve(Cwd, r.snap[v.id].path))

\* ------------------------------------------------------------------ C7
\* The blob of listing entry v of request r, on disk d.
EntryBlob(d, r, v) == Stat(d, PathResolve(Cwd, r.snap[v.id].path))

\* C7 as stated: under any interleaving, when GET / produces its response
\* the blob of every record in it exists on the disk.
C7_AsStated ==
    [][\A p \in Procs :
          (proc[p].pc = "ls_run" /\ proc'[p].pc = "done")
              => \A v \in proc'[p].valid : EntryBlob(disk', proc'[p], v).kind = "file"]_vars

\* A record enters the listing only in a step that finds its blob.
C7_Checked ==
    \A p \in Procs :
        proc'[p].op = "list"
            => \A v \in proc'[p].valid \ proc[p].valid :
                   EntryBlob(disk, proc'[p], v).kind = "file"

\* At the response a listed blob exists, or another request has unlinked it
\* since this listing began.
C7_Responded ==
    \A p \in Procs :
        (proc[p].pc = "ls_run" /\ proc'[p].pc = "done")
            => \A v \in proc'[p].valid :
                   \/ EntryBlob(disk', proc'[p], v).kind = "file"
                   \/ PathResolve(Cwd, proc'[p].snap[v.id].path) \in proc'[p].removed

\* C7 (amended): GET / lists a record only if its blob was a regular file
\* when the request checked it; a listed blob is missing at the response
\* only if a concurrent request unlinked it after the listing began.
C7_Snapshot == [][C7_Checked /\ C7_Responded]_vars

\* A listing has answered with a record whose blob a concurrent request
\* unlinked in the meantime.
C7_Witness ==
    \E p \in Procs :
        /\ Finished(p, "list")
        /\ \E v \in proc[p].valid :
               /\ EntryBlob(disk, proc[p], v).kind = "none"
               /\ PathResolve(Cwd, proc[p].snap[v.id].path) \in proc[p].removed

\* ------------------------------------------------------------------ C8
\* C8: a GET /download/:id of a file-type record with a path inside the
\* uploads directory ends, whatever DELETE /:id or sweep runs beside it,
\* with every byte of the declared Content-Length delivered, with 404, or
\* with a 500 sent before any byte; never as a completed response that
\* carries fewer bytes than declared.
C8_WholeOrFailed ==
    \A p \in Procs :
        (/\ Finished(p, "download")
         /\ proc[p].file.type = "file"
         /\ StrictlyInside(PathResolve(Cwd, proc[p].file.path)))
            => \/ proc[p].status = 200 /\ proc[p].size > 0 /\ proc[p].sent = proc[p].size
               \/ proc[p].status = 404 /\ proc[p].sent = 0
               \/ proc[p].status = 500 /\ proc[p].sent = 0

\* A download whose blob was unlinked between its stat and the opening of
\* the read stream has ended with 500.
C8_Witness ==
    \E p \in Procs :
        /\ Finished(p, "download")
        /\ StrictlyInside(proc[p].fullPath)
        /\ proc[p].fullPath \in proc[p].removed
        /\ proc[p].size > 0
        /\ proc[p].status = 500

\* ------------------------------------------------------------------ C9
\* The basenames of the stored paths of the file-type records.
RecordBasenames ==
    {Basename(PathResolve(Cwd, store[i].path)) : i \in {j \in Ids : store[j].type = "file"}}

\* C9: a sweep with no unlink failure and no other request has deleted
\* every entry of the uploads directory that no file-type record's path
\* has as its basename, has left the other entries, and returns the number
\* of entries it deleted.
C9_SweepResult ==
    \A p \in Procs :
        (Finished(p, "sweep") /\ ~proc[p].unlinkErr)
            => LET names == {proc[p].entries[k] : k \in 1..Len(proc[p].entries)}
                   orphans == names \ RecordBasenames
               IN  /\ \A n \in orphans : Stat(disk, PathJoin(UPLOADS_DIR, n)).kind = "none"
                   /\ \A n \in names \ orphans :
                          Stat(disk, PathJoin(UPLOADS_DIR, n)).kind = "file"
                   /\ proc[p].count = Cardinality(orphans)

\* A sweep over two entries has deleted the orphan and kept the other.
C9_Witness ==
    \E p \in Procs :
        /\ Finished(p, "sweep")
        /\ ~proc[p].unlinkErr
        /\ Len(proc[p].entries) = 2
        /\ proc[p].count = 1

\* ----------------------------------------------------------------- C10
\* C10 as stated: after a sweep with no unlink failure and no other
\* request, every file left in the uploads directory is the file some
\* file-type record's stored path resolves to.
C10_AsStated ==
    \A p \in Procs :
        (Finished(p, "sweep") /\ ~proc[p].unlinkErr)
            => \A k \in 1..Len(proc[p].entries) :
                   LET f == PathJoin(UPLOADS_DIR, proc[p].entries[k])
                   IN  Stat(disk, f).kind = "file"
                           => \E i \in Ids : /\ store[i].type = "file"
                                             /\ ~PathMissing(store[i].path)
                                             /\ PathResolve(Cwd, store[i].path) = f

\* ----------------------------------------------------------------- C11
\* The file-type records of the record sweep of slot p whose stored path
\* names nothing on the disk.
CleanupMissing(p) ==
    {i \in Ids : /\ proc[p].snap[i].type = "file"
                 /\ Stat(disk, PathResolve(Cwd, proc[p].snap[i].path)).kind = "none"}

\* C11: POST /cleanup-orphaned, with no other request beside it, answers
\* 200 after it has visited every file-type record, also when a delete of
\* an orphan record fails in the store: cleanedCount is the number of
\* records removed, errors holds one entry for every record whose delete
\* failed, the two add up to the number of records whose blob is missing,
\* and the records with a blob are kept.
C11_RecordSweep ==
    \A p \in Procs :
        Finished(p, "cleanup")
            => LET missing == CleanupMissing(p)
               IN  /\ proc[p].status = 200
                   /\ proc[p].queue = <<>>
                   /\ proc[p].count = Cardinality({i \in missing : store[i] = NoRec})
                   /\ proc[p].errors = Cardinality({i \in missing : store[i] # NoRec})
                   /\ proc[p].count + proc[p].errors = Cardinality(missing)
                   /\ \A i \in Ids \ missing :
                          proc[p].snap[i].type = "file" => store[i] = proc[p].snap[i]

\* A record sweep has failed to delete the first orphan record and has
\* removed the second.
C11_Witness ==
    \E p \in Procs :
        /\ Finished(p, "cleanup")
        /\ proc[p].errors = 1
        /\ proc[p].count = 1
        /\ store[1] # NoRec
        /\ store[2] = NoRec

\* ----------------------------------------------------------------- C12
\* The entries the sweep of slot p took for orphans.
SweepOrphans(p) ==
    {proc[p].entries[k] : k \in 1..Len(proc[p].entries)} \ proc[p].expected

\* C12: a directory sweep, with no other request beside it, returns
\* normally also when an unlink fails: every orphan entry has been
\* attempted, the returned count is the number of orphans that are gone
\* and leaves out those whose unlink failed.
C12_UnlinkFailureSkipped ==
    \A p \in Procs :
        Finished(p, "sweep")
            => LET gone == {n \in SweepOrphans(p) :
                               Stat(disk, PathJoin(UPLOADS_DIR, n)).kind = "none"}
               IN  /\ proc[p].status = 200
                   /\ proc[p].queue = <<>>
                   /\ proc[p].count = Cardinality(gone)
                   /\ proc[p].errors = Cardinality(SweepOrphans(p) \ gone)
                   /\ proc[p].unlinkErr <=> proc[p].errors > 0

\* A sweep has failed to unlink the first orphan and has removed the second.
C12_Witness ==
    \E p \in Procs :
        /\ Finished(p, "sweep")
        /\ proc[p].unlinkErr
        /\ proc[p].errors = 1
        /\ proc[p].count = 1
        /\ disk[FileA] > 0
        /\ disk[FileB] = 0

\* ----------------------------------------------------------------- C13
\* C13: every entry of a listing carries the size of the blob on the disk,
\* and every download that got past its stat declares that size as its
\* Content-Length, whatever size the record holds.
C13_LiveSize ==
    \A p \in Procs :
        /\ proc[p].op = "list"
            => \A v \in proc[p].valid :
                   v.size = InitSize(PathResolve(Cwd, proc[p].snap[v.id].path))
        /\ (/\ proc[p].op = "download"
            /\ \/ proc[p].pc \in {"dl_open", "dl_stream", "dl_hung", "closed"}
               \/ proc[p].pc = "done" /\ proc[p].status \in {200, 500})
            => proc[p].size = InitSize(proc[p].fullPath)

\* A listing and a download have both reported 2 bytes for a record that
\* declares 1.
C13_Witness ==
    \E p, q \in Procs :
        /\ Finished(p, "list")
        /\ \E v \in proc[p].valid : v.size = 2 /\ proc[p].snap[v.id].size = 1
        /\ Finished(q, "download")
        /\ proc[q].status = 200
        /\ proc[q].file.size = 1
        /\ proc[q].size = 2
        /\ proc[q].sent = 2

\* ----------------------------------------------------------------- C14
\* C14 as stated: a finished GET /download/:id for a file-type record with
\* an empty or blank path has answered 404 and the record is gone; a
\* finished listing with no store failure has left such records out and
\* they are gone.
C14_AsStated ==
    \A p \in Procs :
        /\ (/\ Finished(p, "download")
            /\ proc[p].file.type = "file"
            /\ PathMissing(proc[p].file.path))
               => (proc[p].status = 404 /\ store[proc[p].id] = NoRec)
        /\ (Finished(p, "list") /\ ~proc[p].storeErr)
               => \A i \in Ids :
                      (proc[p].snap[i].type = "file" /\ PathMissing(proc[p].snap[i].path))
                          => (store[i] = NoRec /\ i \notin {v.id : v \in proc[p].valid})

\* ----------------------------------------------------------------- C15
\* C15 as stated: the step in which a GET /download/:id ends with every
\* byte delivered adds one to the downloadCount of its record.
C15_AsStated ==
    [][\A p \in Procs :
          (/\ proc[p].op = "download"
           /\ proc[p].pc = "dl_stream"
           /\ proc'[p].pc = "done"
           /\ proc'[p].status = 200)
              => store'[proc[p].id].downloadCount = store[proc[p].id].downloadCount + 1]_vars

\* ----------------------------------------------------------------- C16
\* C16 as stated: once DELETE /:id has answered 200 for a file-type
\* record, the record is gone and no file is left at its path.
C16_AsStated ==
    \A p \in Procs :
        (Finished(p, "delete") /\ proc[p].status = 200 /\ proc[p].file.type = "file")
            => /\ store[proc[p].id] = NoRec
               /\ Stat(disk, proc[p].fullPath).kind # "file"

\* ----------------------------------------------------------------- C17
\* Slot p holds a finished GET / or GET /download/:id that had record i in
\* hand, with a path the containment check accepts, and did not find its
\* blob.
Drift(p, i) ==
    LET r == proc[p]
    IN  /\ r.pc = "done"
        /\ \/ /\ r.op = "download"
              /\ r.id = i
              /\ r.file.type = "file"
              /\ ~PathMissing(r.file.path)
              /\ InsideUploads(PathResolve(Cwd, r.file.path))
              /\ r.size = 0
           \/ /\ r.op = "list"
              /\ r.snap[i].type = "file"
              /\ ~PathMissing(r.snap[i].path)
              /\ InsideUploads(PathResolve(Cwd, r.snap[i].path))
              /\ i \notin {v.id : v \in r.valid}

\* C17: when two requests, each a GET / or a GET /download/:id, have both
\* read the same record and both found its blob missing, and the store
\* failed neither delete, the download answers 404 and the listing 200,
\* none 500, and the record is gone.
C17_BothReconcile ==
    \A p, q \in Procs : \A i \in Ids :
        (/\ p # q
         /\ Drift(p, i) /\ Drift(q, i)
         /\ ~proc[p].storeErr /\ ~proc[q].storeErr)
            => /\ \A s \in {p, q} :
                      proc[s].status = IF proc[s].op = "download" THEN 404 ELSE 200
               /\ store[i] = NoRec

\* A listing and a download have both found the blob of the same record
\* missing and have both answered.
C17_Witness ==
    \E p, q \in Procs : \E i \in Ids :
        /\ proc[p].op = "list" /\ proc[q].op = "download"
        /\ Drift(p, i) /\ Drift(q, i)
        /\ ~proc[p].storeErr /\ ~proc[q].storeErr
        /\ proc[p].status = 200 /\ proc[q].status = 404
        /\ store[i] = NoRec

\* ----------------------------------------------------------------- C18
\* Two finished sweeps that ran with no other request and no injected
\* failure returned normally, every orphan is gone, and the two counts add
\* up to the number of orphans removed.
C18_BothComplete ==
    \A p, q \in Procs :
        (p # q /\ Finished(p, "sweep") /\ Finished(q, "sweep") /\ faults = 0 /\ reqs = 2)
            => LET orphans == SweepOrphans(p) \cup SweepOrphans(q)
               IN  /\ proc[p].status = 200 /\ proc[q].status = 200
                   /\ \A n \in orphans : Stat(disk, PathJoin(UPLOADS_DIR, n)).kind = "none"
                   /\ proc[p].count + proc[q].count = Cardinality(orphans)

\* A step of a sweep adds to its count exactly the files that the step
\* removes from the disk.
C18_CountedOnce ==
    \A p \in Procs :
        (proc[p].op = "sweep" /\ proc'[p].op = "sweep" /\ proc'[p] # proc[p])
            => proc'[p].count - proc[p].count
                   = Cardinality({f \in FilePaths : disk[f] > 0 /\ disk'[f] = 0})

\* C18: two directory sweeps that run at the same time over the same
\* orphans both return normally, every orphan is removed, and every
\* removal is counted by the sweep that made it and by no other.
C18_SweepsRace == []C18_BothComplete /\ [][C18_CountedOnce]_vars

\* Two sweeps have finished; one removed the orphan and counted it, the
\* other found it already gone.
C18_Witness ==
    \E p, q \in Procs :
        /\ p # q
        /\ Finished(p, "sweep") /\ Finished(q, "sweep")
        /\ faults = 0
        /\ proc[p].count = 1 /\ proc[p].errors = 0
        /\ proc[q].count = 0 /\ proc[q].errors = 1

\* ----------------------------------------------------------------- C19
\* C19 as stated: a read stream that a download has opened is released in
\* the end, whether the transfer completes, the read fails or the client
\* closes the connection first.
C19_AsStated == \A p \in Procs : (proc[p].handle > 0) ~> (proc[p].handle = 0)

\* ----------------------------------------------------------------- C20
\* A read error never puts an error body behind bytes already sent, and
\* one that comes before any byte is answered with 500.
C20_ErrorBody ==
    \A p \in Procs :
        proc[p].readErr
            => /\ proc[p].sent > 0 => proc[p].status = 0
               /\ proc[p].sent = 0 => (proc[p].pc = "done" /\ proc[p].status = 500)

\* C20 as stated: after a read error the response is ended in the end, by
\* the 500 body when nothing was sent yet and by the termination of the
\* stream otherwise; it does not stay open.
C20_AsStated ==
    /\ []C20_ErrorBody
    /\ \A p \in Procs : proc[p].readErr ~> (proc[p].pc \in {"done", "idle"})

\* ---------------------------------------------------------------- C21
\* C21, as stated: the response of GET /download/:id for an id with no
\* record has the same status and the same body as its response for an id
\* whose record exists and whose blob is absent or not a regular file.
\* The code answers { message: 'File not found' } in the first case and
\* { message: 'File not found on server' } in the second.
C21_AsStated ==
    \A p, q \in Procs :
        ( /\ Finished(p, "download") /\ proc[p].file = NoRec
          /\ Finished(q, "download") /\ proc[q].file.type = "file"
          /\ InsideUploads(proc[q].fullPath) /\ proc[q].status = 404 )
        => /\ proc[p].status = proc[q].status
           /\ proc[p].body = proc[q].body

\* ---------------------------------------------------------------- C22
\* The ids of the records a listing request has put in its list so far.
ListedIds(r) == {v.id : v \in r.valid}

\* A listing request answers 200 and only once every record of its
\* snapshot has been evaluated; no record is both listed and drifted.
C22_Answers ==
    \A p \in Procs :
        proc[p].op = "list" =>
            /\ proc[p].status \in {0, 200}
            /\ proc[p].pc = "done" =>
                    /\ proc[p].status = 200
                    /\ proc[p].pending = {}
                    /\ proc[p].todel = {}
            /\ ListedIds(proc[p]) \cap (proc[p].todel \cup proc[p].pending) = {}
            /\ ListedIds(proc[p]) \cup proc[p].todel \cup proc[p].pending
                    \subseteq {i \in Ids : proc[p].snap[i].type = "file"}

\* A record a listing request found drifted is never put in its list, also
\* when deleting it from the store fails; the other records of the snapshot
\* stay in the request's hands and a failure does not end the request.
C22_LeftOut ==
    \A p \in Procs : \A i \in Ids :
        ( /\ proc[p].op = "list" /\ proc'[p].op = "list"
          /\ proc[p].snap[i].type = "file"
          /\ i \notin proc[p].pending
          /\ i \notin ListedIds(proc[p]) )
        => /\ i \notin ListedIds(proc'[p])
           /\ proc'[p].pending \subseteq proc[p].pending
           /\ ListedIds(proc[p]) \subseteq ListedIds(proc'[p])
           /\ proc'[p].status \in {0, 200}

\* C22: in GET /, a failure while reconciling one record (its blob cannot be
\* stat-ed, or the store fails to delete the drifted record) never makes
\* the request fail: it answers 200 with the list, the record is left out of
\* the list, and every other record of the snapshot is still evaluated.
C22_ListNeverFails == []C22_Answers /\ [][C22_LeftOut]_vars

\* A listing has answered 200 after a store error on a drifted record: the
\* record is still in the store and not in the list, another one is listed.
C22_Witness ==
    \E p \in Procs : \E i, j \in Ids :
        /\ Finished(p, "list") /\ proc[p].status = 200 /\ proc[p].storeErr
        /\ proc[p].snap[i].type = "file" /\ store[i] = proc[p].snap[i]
        /\ i \notin ListedIds(proc[p])
        /\ BlobAbsent(store[i])
        /\ j \in ListedIds(proc[p])

\* ---------------------------------------------------------------- C27
\* The record rec is drifted on the disk d: it is a file-type record whose
\* path is empty, resolves outside the uploads directory, or names
\* something that is missing or not a regular file.
Drifted(rec, d) ==
    /\ rec.type = "file"
    /\ \/ PathMissing(rec.path)
       \/ ~InsideUploads(PathResolve(Cwd, rec.path))
       \/ Stat(d, PathResolve(Cwd, rec.path)).kind # "file"

\* Slot p holds a reconciling request that, in this step, goes to delete or
\* deletes record i.
Marks(r, i) ==
    \/ r.op = "list" /\ i \in r.todel
    \/ r.op = "download" /\ r.pc = "dl_delete" /\ r.id = i
    \/ r.op = "cleanup" /\ r.pc = "cl_delete" /\ Head(r.queue) = i

\* A reconciling request marks a record for deletion only on finding it
\* drifted, on the disk as it is at that moment.
C27_MarkedWhenDrifted ==
    \A p \in Procs : \A i \in Ids :
        (~Marks(proc[p], i) /\ Marks(proc'[p], i))
        => /\ store[i].type # "url"
           /\ Drifted(IF proc'[p].op = "download" THEN proc'[p].file
                      ELSE proc'[p].snap[i], disk)
           /\ disk' = disk /\ store' = store

\* A record leaves the store only through DELETE /:id or through a
\* reconciling request that had marked it, and then it is not a url record.
C27_RemovedWhenMarked ==
    \A i \in Ids :
        (store[i] # NoRec /\ store'[i] = NoRec)
        => \E p \in Procs :
              \/ proc[p].op = "delete" /\ proc[p].id = i
              \/ Marks(proc[p], i) /\ store[i].type = "file"

\* GET /download/:id on a url record answers 400 at once and changes
\* neither the store nor the disk.
C27_UrlDownload ==
    \A p \in Procs :
        ( /\ proc[p].pc = "idle" /\ proc'[p].op = "download"
          /\ proc'[p].file.type = "url" )
        => /\ proc'[p].pc = "done" /\ proc'[p].status = 400
           /\ store' = store /\ disk' = disk

C25_AsStated ==
    \A p \in Procs :
        proc[p].op = "direct" =>
            proc[p].name = decodeURIComponent(proc[p].raw).val

\* ---------------------------------------------------------------- C23
\* C23, as stated: in every step in which an upload-created record first
\* becomes visible in the store, its blob exists in the uploads directory
\* and the record's size is the size on disk at that moment. The stat and
\* the save are separate awaits: a sweep (C26) or the cleanup of an upload
\* that generated the same name (C24) unlinks the file in between.
C23_AsStated ==
    [][\A i \in Ids :
          (store[i] = NoRec /\ store'[i].type = "file")
          => /\ StrictlyInside(PathResolve(Cwd, store'[i].path))
             /\ Stat(disk', PathResolve(Cwd, store'[i].path)).kind = "file"
             /\ Stat(disk', PathResolve(Cwd, store'[i].path)).size = store'[i].size]_vars

\* ---------------------------------------------------------------- C24
\* C24, as stated: no two file-type records have the same stored path, also
\* when two uploads of the same original name run concurrently and read the
\* same Date.now(). Both uploads then generate the same name, the second
\* write replaces the first file, and both records are saved with that path.
C24_AsStated ==
    \A p, q \in Procs :
        ( /\ p # q
          /\ Finished(p, "upload") /\ proc[p].status = 201
          /\ Finished(q, "upload") /\ proc[q].status = 201
          /\ store[proc[p].id].type = "file"
          /\ store[proc[q].id].type = "file" )
        => store[proc[p].id].path # store[proc[q].id].path

\* ---------------------------------------------------------------- C26
\* C26, as stated: when POST /upload interleaves with the directory sweep,
\* an upload that ends with 201 and a saved record has its blob on disk.
\* The sweep that lists the directory and reads the store between the
\* write of the file and the save of the record unlinks the file as an
\* orphan.
C26_AsStated ==
    \A p, q \in Procs :
        ( /\ Finished(p, "upload") /\ proc[p].status = 201
          /\ proc[p].kind = "file"
          /\ store[proc[p].id] = proc[p].file
          /\ proc[q].op = "sweep" )
        => Stat(disk, proc[p].fullPath).kind = "file"

\* ---------------------------------------------------------------- C28
\* C28, as stated: once a POST /upload has finished, the file the upload
\* middleware wrote for it is referenced by the record the request created
\* or is gone from the disk (a failing unlink left aside). A request that
\* carries a url and a file takes the url branch, which answers 201 and
\* never looks at req.file.
C28_AsStated ==
    \A p \in Procs :
        ( /\ Finished(p, "upload") /\ proc[p].fullPath # <<>>
          /\ ~proc[p].unlinkErr )
        => \/ /\ store[proc[p].id].type = "file"
              /\ PathResolve(Cwd, store[proc[p].id].path) = proc[p].fullPath
           \/ Stat(disk, proc[p].fullPath).kind = "none"

\* ---------------------------------------------------------------- C29
\* The number of requests of address a among the first k the limiter let
\* through that fall in the window ending at the k-th.
Admitted(a, k) == Cardinality({j \in 1..k : log[a][j] > log[a][k] - windowMs})

\* C29, as stated: the limiter admits at most max requests of one address
\* in any sliding window of windowMs, whatever the cleanup does, and the
\* retryAfter of a 429 is at least 1. The cleanup deletes the key of another
\* address as soon as its first timestamp has left the window, with the
\* timestamps of that address that are still inside: its count restarts
\* from zero.
C29_AsStated ==
    /\ \A a \in Addrs : \A k \in 1..Len(log[a]) : Admitted(a, k) <= max
    /\ last.status = 429 => last.retryAfter >= 1

\* ---------------------------------------------------------------- C30
\* connectDB has returned or has ended the process.
BootOver == boot.pc \in {"connected", "exited"}

\* The attempts, failures and waits of connectDB at every moment.
C30_Counts ==
    /\ boot.attempts <= retries
    /\ boot.waits = [k \in 1..Len(boot.waits) |-> k]
    /\ Len(boot.waits) <= retries - 1
    /\ Len(boot.waits) = (IF boot.pc = "exited" THEN boot.failed - 1
                          ELSE IF boot.pc = "connect" THEN boot.attempts
                          ELSE IF boot.pc = "wait" THEN boot.attempts - 1
                          ELSE boot.failed)
    /\ boot.pc = "connected" => boot.attempts = boot.failed + 1
    /\ boot.pc = "exited" <=> boot.failed = retries

\* Nothing follows the return or the exit: no attempt after a success.
C30_Stays == BootOver => boot' = boot

\* C30: connectDB always terminates; it makes at most retries attempts,
\* returns right after the first success, waits 1, 2, ... seconds between
\* attempts and not after the last failed one, and calls process.exit(1)
\* exactly when all the attempts have failed.
C30_Terminates == <>BootOver /\ []C30_Counts /\ [][C30_Stays]_vars

\* All three attempts have failed, with waits of 1 and 2 seconds between
\* them, and the process has exited.
C30_Witness ==
    /\ boot.pc = "exited"
    /\ boot.attempts = retries
    /\ boot.waits = <<1, 2>>
====
